---------------------------- MODULE Spec2Model ----------------------------
(***************************************************************************)
(* A model of the time dashboard of obsidian-time-project:                 *)
(*   src/src/Dashboard.md                  the dataviewjs dashboard script *)
(*   src/src/_utils/time_data_processor.js processTimeLogs                 *)
(*                                                                         *)
(* Durations are counted in tenths of an hour, so that the 0.5 h of one    *)
(* table row is the integer 5; every duration of the program is a multiple *)
(* of 0.5, which binary floating point adds exactly.                       *)
(*                                                                         *)
(* A JavaScript string is a sequence of tokens: "|", ">", " " (white       *)
(* space), "---" (a run of at least three dashes) and words.  split, trim  *)
(* and filter(Boolean) are computed on these sequences.                    *)
(***************************************************************************)
EXTENDS Integers, Sequences, FiniteSets, TLC

VARIABLES
    strict,             \* whether the script is evaluated as strict-mode code
    collectedTimeData,  \* Dashboard.md:111 (timeData of time_data_processor.js:29)
    foldedRows,         \* history: the pathSegments of the rows folded so far
    currentPeriod,      \* Dashboard.md:25, the period selected
    now,                \* dv.date("now")
    range,              \* what calculateDateRange handed back
    dailyNotes,         \* Dashboard.md:114, the pages of the window, by day
    pc,                 \* where the run of the specification stands
    entry,              \* which of the two scans runs
    pageIdx,            \* the page of dailyNotes the loop over the pages is at
    i,                  \* Dashboard.md:128, index of the line at hand
    inTable,            \* Dashboard.md:125
    headerRow,          \* Dashboard.md:126
    console,            \* the console.warn and console.error calls made
    trace,              \* history: the branch each processed line took
    timeData,           \* Dashboard.md:22, the tree in use
    topLevelTotals,     \* Dashboard.md:23
    grandTotal,         \* Dashboard.md:24
    title,              \* Dashboard.md:367, the text of the heading
    breadcrumb,         \* Dashboard.md:374, its style.display and its elements
    chart,              \* what renderChart drew last
    details,            \* Dashboard.md:393, the table of detailsSection
    calls,              \* the calls of showMainView made, with their locals
    vault,              \* the pages dv.pages() yields
    drawn               \* history: what drew on the page last, and for which path

foldVars == <<strict, collectedTimeData, foldedRows>>

periodVars == <<currentPeriod, now, range>>

lineVars == <<i, inTable, headerRow>>

scanVars == <<entry, pageIdx, lineVars, console, trace>>

viewVars == <<timeData, topLevelTotals, grandTotal, title, breadcrumb, chart,
              details, calls, vault, drawn>>

vars == <<foldVars, periodVars, dailyNotes, pc, scanVars, viewVars>>

---------------------------------------------------------------------------
(* JavaScript values held in the tree: a number, an object (a map from own *)
(* keys to values), a string, or undefined.  The strings that enter the    *)
(* tree are "[object Object]" followed by val copies of "0.5" (an object   *)
(* that had a number added to it, line 192) and the source text of a       *)
(* function followed by val copies of "0.5".  A function is what reading a *)
(* name that Object.prototype defines yields (constructor, toString, ...): *)
(* the objects of the tree are object literals (lines 111 and 183), and a  *)
(* number or a string is boxed for the read.                               *)

NoKeys == [k \in {} |-> 0]

Undef == [kind |-> "undef", val |-> 0, kids |-> NoKeys]

Num(n) == [kind |-> "num", val |-> n, kids |-> NoKeys]

Obj(f) == [kind |-> "obj", val |-> 0, kids |-> f]

Str(k) == [kind |-> "str", val |-> k, kids |-> NoKeys]

\* a function inherited from Object.prototype (or Number.prototype, ...);
\* the properties written to it are not part of the tree
Fn == [kind |-> "fn", val |-> 0, kids |-> NoKeys]

\* String(f) + "0.5" + ... for such a function
FnStr(k) == [kind |-> "fnstr", val |-> k, kids |-> NoKeys]

\* the names of the model that every object inherits
InheritedNames == {<<"constructor">>}

\* a string whose text is not tracked: the text of a sum that ran into a
\* string depends on the order of the keys (val = 0 never names a tree string)
OpaqueStr == Str(0)

EmptyObj == Obj(NoKeys)

\* v[key] for a value that is not undefined: an own key of an object, else
\* what the prototype chain holds; a number or a string has no own key of
\* the model (they are neither "length" nor an index), and the properties a
\* row has written to an inherited function are not followed
Get(v, key) ==
    IF v.kind = "obj" /\ key \in DOMAIN v.kids THEN v.kids[key]
    ELSE IF key \in InheritedNames /\ v.kind # "undef" THEN Fn
    ELSE Undef

\* obj[key] = x on an object
Put(v, key, x) ==
    Obj([k \in DOMAIN v.kids \cup {key} |-> IF k = key THEN x ELSE v.kids[k]])

\* !v
Falsy(v) == v.kind = "undef" \/ (v.kind = "num" /\ v.val = 0)

\* v + d for a number d (the += of line 192): number addition, or string
\* concatenation when v is an object ("[object Object]" + "0.5") or a string
PlusNumber(v, d) ==
    CASE v.kind = "num" -> Num(v.val + d)
      [] v.kind = "obj" -> Str(1)
      [] v.kind = "str" -> Str(v.val + 1)
      [] v.kind = "fn"  -> FnStr(1)
      [] v.kind = "fnstr" -> FnStr(v.val + 1)
      [] OTHER          -> Undef   \* undefined + d is NaN; not reached below

DURATION_PER_ROW_HOURS == 5   \* 0.5 h in tenths of an hour

RECURSIVE sumNestedValues(_)
RECURSIVE SumKeys(_, _, _)

\* Dashboard.md:41-45, the for-in loop: sum += sumNestedValues(obj[key]).
\* A number plus a string, or a string plus anything, is a string.
SumKeys(obj, keys, sum) ==
    IF keys = {} THEN sum
    ELSE LET key == CHOOSE k \in keys : TRUE
             s   == sumNestedValues(obj.kids[key])
         IN  SumKeys(obj, keys \ {key},
                     IF sum.kind = "num" /\ s.kind = "num"
                     THEN Num(sum.val + s.val)
                     ELSE OpaqueStr)

\* Dashboard.md:36-47
sumNestedValues(obj) ==
    IF obj.kind # "obj"
    THEN (IF Falsy(obj) THEN Num(0) ELSE obj)       \* return obj || 0
    ELSE SumKeys(obj, DOMAIN obj.kids, Num(0))

---------------------------------------------------------------------------
(* Folding one accepted row into the tree, Dashboard.md:176-192.           *)
(* currentLevel is a reference: what the walk writes through it is seen in *)
(* the tree, so the walk returns the value currentLevel referred to as the *)
(* walk left it.  A write to a property of a number or a string does       *)
(* nothing in sloppy code and throws a TypeError in strict code; a read of *)
(* a property of undefined throws in both.                                 *)

Walked(v, t) == [node |-> v, threw |-> t]

\* Dashboard.md:188-192, the last segment, on the level the walk reached
AddLeaf(currentLevel, finalLeafName, isStrict) ==
    CASE currentLevel.kind = "undef" ->
            Walked(currentLevel, TRUE)         \* line 189 reads undefined[name]
      [] currentLevel.kind = "obj" ->
            LET old  == Get(currentLevel, finalLeafName)
                base == IF Falsy(old) THEN Num(0) ELSE old
            IN  Walked(Put(currentLevel, finalLeafName,
                           PlusNumber(base, DURATION_PER_ROW_HOURS)), FALSE)
      [] currentLevel.kind = "fn" ->
            \* the writes of lines 190 and 192 land on the function
            Walked(currentLevel, FALSE)
      [] OTHER ->
            \* a number or a string: line 190 or 192 writes a property of a
            \* primitive
            Walked(currentLevel, isStrict)

RECURSIVE WalkParents(_, _, _, _)

\* Dashboard.md:180-186, then 188-192
WalkParents(currentLevel, parentPathSegments, finalLeafName, isStrict) ==
    IF parentPathSegments = <<>>
    THEN AddLeaf(currentLevel, finalLeafName, isStrict)
    ELSE LET category == Head(parentPathSegments)
             rest     == Tail(parentPathSegments)
         IN  CASE currentLevel.kind = "undef" ->
                     Walked(currentLevel, TRUE)    \* line 182 reads undefined[category]
               [] currentLevel.kind = "obj" ->
                     LET old  == Get(currentLevel, category)
                         next == IF Falsy(old) THEN EmptyObj ELSE old
                         sub  == WalkParents(next, rest, finalLeafName, isStrict)
                     IN  IF old.kind = "fn"
                         THEN \* an inherited function is truthy: line 183
                              \* creates nothing and the walk leaves the tree
                              Walked(currentLevel, sub.threw)
                         ELSE Walked(Put(currentLevel, category, sub.node),
                                     sub.threw)
               [] currentLevel.kind = "fn" ->
                     \* what lines 183 and 190-192 write from here on lands
                     \* on the function or below it
                     Walked(currentLevel, FALSE)
               [] Get(currentLevel, category).kind = "fn" ->
                     \* a number or a string, boxed: the walk goes on from
                     \* the function its prototype holds
                     Walked(currentLevel, FALSE)
               [] OTHER ->
                     \* a number or a string: line 183 writes a property of a
                     \* primitive, line 185 then reads undefined from it
                     IF isStrict THEN Walked(currentLevel, TRUE)
                     ELSE Walked(currentLevel,
                                 WalkParents(Undef, rest, finalLeafName, isStrict).threw)

\* pathSegments.slice(0, -1)
AllButLast(s) == SubSeq(s, 1, Len(s) - 1)

\* Dashboard.md:176-192 for one row; pathSegments is not empty (line 171)
FoldRow(tree, pathSegments, isStrict) ==
    WalkParents(tree, AllButLast(pathSegments),
                pathSegments[Len(pathSegments)], isStrict)

---------------------------------------------------------------------------
(* The fold on its own: accepted rows, given by their pathSegments, are    *)
(* folded one after the other into a tree that starts empty (line 111).    *)

\* the variables of the period resolver, where a specification leaves them out
PeriodUnused ==
    /\ currentPeriod = ""
    /\ now = [day |-> 0, tick |-> 0]
    /\ range = [threw |-> "", startDate |-> now, endDate |-> now]

\* the variables of a scan, where a specification leaves them out
ScanUnused ==
    /\ entry = ""
    /\ pageIdx = 0
    /\ i = 0
    /\ inTable = FALSE
    /\ headerRow = <<>>
    /\ console = <<>>
    /\ trace = <<>>

\* the variables of the view, where a specification leaves them out
ViewUnused ==
    /\ timeData = EmptyObj
    /\ topLevelTotals = EmptyObj
    /\ grandTotal = Num(0)
    /\ title = <<>>
    /\ breadcrumb = <<>>
    /\ chart = <<>>
    /\ details = <<>>
    /\ calls = <<>>
    /\ vault = {}
    /\ drawn = <<>>

MaxDepth == 3      \* longest hierarchy path folded
MaxRows == 3       \* rows folded in one run of the fold

\* the names a hierarchy segment can have
SegmentNames == {<<"A">>, <<"B">>}

PathsUpTo(n) == UNION {[1..k -> SegmentNames] : k \in 1..n}

\* paths with an inherited name; at most one segment follows it, so that
\* no row reads what an earlier row wrote to the function
InheritedPaths ==
    {<<<<"constructor">>>>, <<<<"A">>, <<"constructor">>>>,
     <<<<"A">>, <<"constructor">>, <<"B">>>>}

RowPaths == PathsUpTo(MaxDepth) \cup InheritedPaths

InitFold ==
    /\ strict \in BOOLEAN
    /\ collectedTimeData = EmptyObj
    /\ foldedRows = <<>>
    /\ PeriodUnused
    /\ ScanUnused
    /\ dailyNotes = <<>>
    /\ pc = "fold"
    /\ ViewUnused

\* one accepted row reaches lines 176-192; an exception leaves the tree as
\* the walk left it (the catch of line 202 only logs)
FoldStep(pathSegments) ==
    /\ Len(foldedRows) < MaxRows
    /\ collectedTimeData' = FoldRow(collectedTimeData, pathSegments, strict).node
    /\ foldedRows' = Append(foldedRows, pathSegments)
    /\ UNCHANGED <<strict, periodVars, dailyNotes, pc, scanVars>>
    /\ UNCHANGED viewVars

NextFold == \E pathSegments \in RowPaths : FoldStep(pathSegments)

SpecFold == InitFold /\ [][NextFold]_vars

RECURSIVE FoldAll(_, _, _)

\* the rows of a sequence folded in order
FoldAll(tree, rows, isStrict) ==
    IF rows = <<>> THEN tree
    ELSE FoldAll(FoldRow(tree, Head(rows), isStrict).node, Tail(rows), isStrict)

RECURSIVE NodeAt(_, _)

\* tree[p1][p2]...[pn]
NodeAt(tree, path) ==
    IF path = <<>> THEN tree ELSE NodeAt(Get(tree, Head(path)), Tail(path))

\* the rows of a sequence in the order a permutation gives
Permuted(rows, perm) == [k \in 1..Len(rows) |-> rows[perm[k]]]

(* C1: after folding any sequence of accepted rows, prefixes of one        *)
(* another included, the sum of the whole tree is 0.5 h times the number   *)
(* of rows folded.                                                         *)
C1_SumIsRowsFolded ==
    sumNestedValues(collectedTimeData)
        = Num(DURATION_PER_ROW_HOURS * Len(foldedRows))

(* C2: folding the same rows in any order yields the same sum at every     *)
(* node.                                                                   *)
C2_FoldOrderIndependent ==
    \A perm \in Permutations(1..Len(foldedRows)) :
        LET other == FoldAll(EmptyObj, Permuted(foldedRows, perm), strict)
        IN  \A path \in RowPaths :
                sumNestedValues(NodeAt(other, path))
                    = sumNestedValues(NodeAt(collectedTimeData, path))

(* C3: folding A and then A > B leaves A a Branch whose sum is both rows'  *)
(* durations, the first row's duration kept under a child of A named A.    *)
C3_PromotionKeepsLeaf ==
    \A a, b \in SegmentNames :
        (a # b /\ foldedRows = <<<<a>>, <<a, b>>>>) =>
            LET node == Get(collectedTimeData, a)
            IN  /\ node.kind = "obj"
                /\ sumNestedValues(node) = Num(2 * DURATION_PER_ROW_HOURS)
                /\ Get(node, a) = Num(DURATION_PER_ROW_HOURS)
                /\ Get(node, b) = Num(DURATION_PER_ROW_HOURS)

(* C4: folding a row whose last segment names an existing Branch keeps the *)
(* node a Branch, adds the row's duration under a child named after the    *)
(* last segment and leaves the Branch's other children as they were.       *)
C4_RowAtBranchKeepsChildren ==
    [][\A path \in RowPaths :
          LET last   == path[Len(path)]
              before == NodeAt(collectedTimeData, path)
              after  == NodeAt(collectedTimeData', path)
          IN  (foldedRows' = Append(foldedRows, path) /\ before.kind = "obj") =>
                  /\ after.kind = "obj"
                  /\ sumNestedValues(Get(after, last))
                       = PlusNumber(sumNestedValues(Get(before, last)),
                                    DURATION_PER_ROW_HOURS)
                  /\ \A k \in DOMAIN before.kids \ {last} :
                         Get(after, k) = before.kids[k]
      ]_vars

\* p is q or the start of q
IsPrefix(p, q) == Len(p) <= Len(q) /\ SubSeq(q, 1, Len(p)) = p

\* no row's path is a strict prefix of another row's path
PrefixFree(rows) ==
    \A j, k \in 1..Len(rows) :
        IsPrefix(rows[j], rows[k]) => rows[j] = rows[k]

\* the root and the nodes on the paths of the rows
NodesOf(rows) ==
    UNION {{SubSeq(rows[k], 1, n) : n \in 0..Len(rows[k])} : k \in 1..Len(rows)}
        \cup {<<>>}

\* how many of the rows lie at or below a node
RowsUnder(rows, path) == Cardinality({k \in 1..Len(rows) : IsPrefix(path, rows[k])})

(* C16: for rows of which no path is a strict prefix of another, after     *)
(* folding them the sum at every node is the total duration of the rows    *)
(* whose path starts with the path of the node; n rows with the same path  *)
(* yield a leaf of n times the duration of a row.                          *)
C16_PrefixFreeSums ==
    PrefixFree(foldedRows) =>
        \A path \in NodesOf(foldedRows) :
            sumNestedValues(NodeAt(collectedTimeData, path))
                = Num(DURATION_PER_ROW_HOURS * RowsUnder(foldedRows, path))

---------------------------------------------------------------------------
(* Dates.  dv.date yields a Luxon DateTime; it is modelled as a day number *)
(* (days since 1970-01-01, proleptic Gregorian calendar) and a tick within *)
(* the day, in a zone without daylight-saving shifts.  Tick 0 is the start *)
(* of the day and tick TicksPerDay - 1 its last instant.  DateTimes are    *)
(* compared by valueOf(), here Instant.                                    *)

TicksPerDay == 3    \* resolution of the time of day

DateTime(d, t) == [day |-> d, tick |-> t]

Instant(dt) == dt.day * TicksPerDay + dt.tick

\* day number of a civil date
DaysFromCivil(year, month, dom) ==
    LET y   == IF month <= 2 THEN year - 1 ELSE year
        era == y \div 400
        yoe == y - era * 400
        mp  == IF month > 2 THEN month - 3 ELSE month + 9
        doy == (153 * mp + 2) \div 5 + dom - 1
        doe == yoe * 365 + yoe \div 4 - yoe \div 100 + doy
    IN  era * 146097 + doe - 719468

\* civil date of a day number
CivilFromDays(d) ==
    LET z   == d + 719468
        era == z \div 146097
        doe == z - era * 146097
        yoe == (doe - doe \div 1460 + doe \div 36524 - doe \div 146096) \div 365
        doy == doe - (365 * yoe + yoe \div 4 - yoe \div 100)
        mp  == (5 * doy + 2) \div 153
        dom == doy - (153 * mp + 2) \div 5 + 1
        m   == IF mp < 10 THEN mp + 3 ELSE mp - 9
        y   == yoe + era * 400
    IN  [year |-> IF m <= 2 THEN y + 1 ELSE y, month |-> m, dom |-> dom]

DaysInMonth(year, month) ==
    IF month = 12 THEN 31
    ELSE DaysFromCivil(year, month + 1, 1) - DaysFromCivil(year, month, 1)

Min(a, b) == IF a <= b THEN a ELSE b

\* 0 for Monday .. 6 for Sunday (1970-01-01 was a Thursday)
WeekdayIndex(d) == (d + 3) % 7

\* DateTime.startOf(unit) and DateTime.endOf(unit); weeks start on Monday
startOf(dt, unit) ==
    LET c == CivilFromDays(dt.day)
    IN  CASE unit = "day"   -> DateTime(dt.day, 0)
          [] unit = "week"  -> DateTime(dt.day - WeekdayIndex(dt.day), 0)
          [] unit = "month" -> DateTime(DaysFromCivil(c.year, c.month, 1), 0)
          [] unit = "year"  -> DateTime(DaysFromCivil(c.year, 1, 1), 0)

endOf(dt, unit) ==
    LET c == CivilFromDays(dt.day)
    IN  CASE unit = "day"   -> DateTime(dt.day, TicksPerDay - 1)
          [] unit = "week"  ->
                DateTime(dt.day - WeekdayIndex(dt.day) + 6, TicksPerDay - 1)
          [] unit = "month" ->
                DateTime(DaysFromCivil(c.year, c.month, DaysInMonth(c.year, c.month)),
                         TicksPerDay - 1)
          [] unit = "year"  -> DateTime(DaysFromCivil(c.year, 12, 31), TicksPerDay - 1)

\* DateTime.plus / minus of whole days and weeks keep the time of day
plusDays(dt, n) == DateTime(dt.day + n, dt.tick)

\* the sign of the duration mistaken
minusDays_added(dt, n) == DateTime(dt.day + n, dt.tick)

minusDays(dt, n) == DateTime(dt.day - n, dt.tick)

\* the weeks of the duration taken for days
minusWeeks_asDays(dt, n) == DateTime(dt.day - n, dt.tick)

minusWeeks(dt, n) == DateTime(dt.day - 7 * n, dt.tick)

\* DateTime.minus({months: n}): same day of the month, clamped to the
\* length of the month arrived at
minusMonths(dt, n) ==
    LET c   == CivilFromDays(dt.day)
        idx == c.year * 12 + (c.month - 1) - n
        y   == idx \div 12
        m   == (idx % 12) + 1
    IN  DateTime(DaysFromCivil(y, m, Min(c.dom, DaysInMonth(y, m))), dt.tick)

\* DateTime.minus({years: n})
minusYears(dt, n) == minusMonths(dt, 12 * n)

\* Dashboard.md:335-338
periods ==
    {"Today", "This week", "This month", "This year", "7 days", "30 days",
     "12 weeks", "6 months", "1 year", "5 years", "All"}

\* what calculateDateRange hands back: the window, or the exception thrown
DateRange(s, e) == [threw |-> "", startDate |-> s, endDate |-> e]

\* Dashboard.md:54-100; today is dv.date("now").  The switch has no default:
\* any other period keeps the values of lines 56-57.
calculateDateRange(period, today) ==
    LET startDate == startOf(today, "day")
        endDate   == endOf(today, "day")
    IN  CASE period = "Today"      -> DateRange(startDate, endDate)
          [] period = "This week"  ->
                DateRange(startOf(today, "week"), endOf(today, "week"))
          [] period = "This month" ->
                DateRange(startOf(today, "month"), endOf(today, "month"))
          [] period = "This year"  ->
                DateRange(startOf(today, "year"), endOf(today, "year"))
          [] period = "7 days"     -> DateRange(minusDays(today, 6), endDate)
          [] period = "30 days"    -> DateRange(minusDays(today, 29), endDate)
          [] period = "12 weeks"   ->
                DateRange(startOf(minusWeeks(today, 11), "week"), endOf(today, "week"))
          [] period = "6 months"   ->
                DateRange(startOf(minusMonths(today, 5), "month"), endOf(today, "month"))
          [] period = "1 year"     ->
                DateRange(plusDays(minusYears(today, 1), 1), endDate)
          [] period = "5 years"    ->
                DateRange(plusDays(minusYears(today, 5), 1), endDate)
          [] period = "All"        ->
                DateRange(DateTime(DaysFromCivil(1900, 1, 1), 0),
                          DateTime(DaysFromCivil(2100, 1, 1), 0))
          [] OTHER                 -> DateRange(startDate, endDate)

---------------------------------------------------------------------------
(* The period resolver and the query of the notes of the window,           *)
(* Dashboard.md:486-487 with 54-100 and 113-116.                           *)

NowDays == 14           \* days from which now is drawn
VaultDaysBefore == 31   \* daily notes exist from this many days before ...
VaultDaysAfter == 7     \* ... to this many days after the days of now

NowFirstDay == DaysFromCivil(2024, 2, 26)

NowSet == {DateTime(d, t) : d \in NowFirstDay..(NowFirstDay + NowDays - 1),
                            t \in 0..(TicksPerDay - 1)}

\* a page of the vault: p.file.day is the date in the file name, at the
\* start of that day, and is missing for a page that is no daily note
\* readable: whether dv.io.load yields its content; lines: the content
\* split at the line ends
Page(d, readable, lines) ==
    [hasDay |-> TRUE, day |-> DateTime(d, 0), readable |-> readable,
     lines |-> lines]

DailyPage(d) == Page(d, TRUE, <<<<>>>>)

UndatedPage ==
    [hasDay |-> FALSE, day |-> DateTime(0, 0), readable |-> TRUE,
     lines |-> <<<<>>>>]

PeriodVault ==
    {DailyPage(d) : d \in (NowFirstDay - VaultDaysBefore)
                            ..(NowFirstDay + NowDays - 1 + VaultDaysAfter)}
        \cup {UndatedPage}

RECURSIVE SortByDay(_)

\* .sort(p => p.file.day, 'asc')
SortByDay(pages) ==
    IF pages = {} THEN <<>>
    ELSE LET first == CHOOSE p \in pages :
                          \A q \in pages : Instant(p.day) <= Instant(q.day)
         IN  <<first>> \o SortByDay(pages \ {first})

\* the pages up to the end of the window, with no test against its start
SelectDailyNotes_unbounded(pages, startDate, endDate) ==
    SortByDay({p \in pages : p.hasDay /\ Instant(p.day) <= Instant(endDate)})

\* Dashboard.md:114-116
SelectDailyNotes(pages, startDate, endDate) ==
    SortByDay({p \in pages : /\ p.hasDay
                             /\ Instant(p.day) >= Instant(startDate)
                             /\ Instant(p.day) <= Instant(endDate)})

\* a name the period selector does not offer
PeriodInputs == periods \cup {"Yesterday"}

InitPeriod ==
    /\ currentPeriod \in PeriodInputs
    /\ now \in NowSet
    /\ range = DateRange(now, now)
    /\ dailyNotes = <<>>
    /\ pc = "resolve"
    /\ strict = FALSE
    /\ collectedTimeData = EmptyObj
    /\ foldedRows = <<>>
    /\ ScanUnused
    /\ ViewUnused

\* Dashboard.md:486
ResolvePeriod ==
    /\ pc = "resolve"
    /\ range' = calculateDateRange(currentPeriod, now)
    /\ pc' = IF range'.threw = "" THEN "query" ELSE "failed"
    /\ UNCHANGED <<currentPeriod, now, dailyNotes, foldVars, scanVars>>
    /\ UNCHANGED viewVars

\* Dashboard.md:487 with 114-116
QueryNotes ==
    /\ pc = "query"
    /\ dailyNotes' = SelectDailyNotes(PeriodVault, range.startDate, range.endDate)
    /\ pc' = "queried"
    /\ UNCHANGED <<periodVars, foldVars, scanVars>>
    /\ UNCHANGED viewVars

NextPeriod == ResolvePeriod \/ QueryNotes

SpecPeriod == InitPeriod /\ [][NextPeriod]_vars

\* the days of the daily notes selected
SelectedDays == {dailyNotes[k].day.day : k \in 1..Len(dailyNotes)}

(* C7: resolving a period name that is not one of the recognized periods   *)
(* fails with InvalidPeriod: no window is returned and no notes are        *)
(* aggregated for it.                                                      *)
C7_UnknownPeriodFails ==
    (currentPeriod \notin periods /\ pc # "resolve") =>
        (range.threw = "InvalidPeriod" /\ pc = "failed")

(* C8: for "7 days" (resp. "30 days") the window runs from the calendar    *)
(* day 6 (resp. 29) days before now's day to now's day, both included, so  *)
(* the notes of both boundary days are selected.                           *)
C8_LastDaysInclusive ==
    \A n \in {7, 30} :
        (pc = "queried" /\ currentPeriod = (IF n = 7 THEN "7 days" ELSE "30 days"))
            =>
            SelectedDays = (now.day - (n - 1))..now.day

(* C18: for every recognized period name and every value of now, the       *)
(* window the period resolver returns has its start at or before its end.  *)
C18_WindowStartNotAfterEnd ==
    (currentPeriod \in periods /\ pc # "resolve") =>
        /\ range.threw = ""
        /\ Instant(range.startDate) <= Instant(range.endDate)

\* a window resolved relative to now, whose ends fall on different days
C18_WindowResolved ==
    /\ pc = "queried"
    /\ currentPeriod = "7 days"
    /\ range.startDate.day = now.day - 6
    /\ range.endDate.day = now.day
    /\ Len(dailyNotes) > 0

\* a Monday: 2024-02-26
AMonday == DaysFromCivil(2024, 2, 26)

\* the Monday of the calendar week of day d
MondayOf(d) == CHOOSE m \in (d - 6)..d : (m - AMonday) % 7 = 0

(* C29: for "12 weeks" the window starts at the first instant of the week  *)
(* that holds the day 11 weeks before now and ends at the last instant of  *)
(* the week that holds now: 12 whole calendar weeks, with now among them.  *)
C29_TwelveWholeWeeks ==
    (currentPeriod = "12 weeks" /\ pc # "resolve") =>
        /\ range.threw = ""
        /\ range.startDate = DateTime(MondayOf(now.day - 7 * 11), 0)
        /\ range.endDate = DateTime(MondayOf(now.day) + 6, TicksPerDay - 1)
        /\ Instant(range.endDate) - Instant(range.startDate) + 1
               = 12 * 7 * TicksPerDay
        /\ Instant(range.startDate) <= Instant(now)
        /\ Instant(now) <= Instant(range.endDate)

\* the window of 12 weeks resolved in the middle of a week and of a day
C29_ResolvedMidWeek ==
    /\ currentPeriod = "12 weeks"
    /\ pc = "queried"
    /\ now.day - MondayOf(now.day) = 3
    /\ now.tick = 1
    /\ range.startDate.day = now.day - 3 - 77
    /\ range.endDate.day = now.day + 3

---------------------------------------------------------------------------
(* Strings as sequences of tokens, and the String and Array methods the    *)
(* parsers use.  An array is a sequence; array[k] of the code is           *)
(* sequence[k + 1] here.                                                   *)

RECURSIVE TrimStart(_)

TrimStart(str) ==
    IF str # <<>> /\ Head(str) = " " THEN TrimStart(Tail(str)) ELSE str

RECURSIVE TrimEnd(_)

TrimEnd(str) ==
    IF str # <<>> /\ str[Len(str)] = " "
    THEN TrimEnd(SubSeq(str, 1, Len(str) - 1))
    ELSE str

\* String.prototype.trim
Trim(str) == TrimEnd(TrimStart(str))

\* String.prototype.startsWith, for a one-token prefix
StartsWith(str, tok) == str # <<>> /\ Head(str) = tok

\* String.prototype.includes, for one token
Includes(str, tok) == \E k \in 1..Len(str) : str[k] = tok

RECURSIVE SplitFrom(_, _, _, _)

SplitFrom(str, sep, piece, pieces) ==
    IF str = <<>> THEN Append(pieces, piece)
    ELSE IF Head(str) = sep
         THEN SplitFrom(Tail(str), sep, <<>>, Append(pieces, piece))
         ELSE SplitFrom(Tail(str), sep, Append(piece, Head(str)), pieces)

\* String.prototype.split(sep): the pieces between the separators, the
\* empty ones included; never an empty array
Split(str, sep) == SplitFrom(str, sep, <<>>, <<>>)

\* .map(s => s.trim())
MapTrim(arr) == [k \in 1..Len(arr) |-> Trim(arr[k])]

RECURSIVE FilterBoolean(_)

\* .filter(Boolean) on an array of strings: the non-empty ones
FilterBoolean(arr) ==
    IF arr = <<>> THEN <<>>
    ELSE IF Head(arr) = <<>> THEN FilterBoolean(Tail(arr))
         ELSE <<Head(arr)>> \o FilterBoolean(Tail(arr))

\* !arr[k] for an array of strings: an index past the end reads undefined
NoCellAt(arr, k) == k < 0 \/ k >= Len(arr) \/ arr[k + 1] = <<>>

\* the line is a separator line (Dashboard.md:132, time_data_processor.js:53)
IsSeparatorLine(line) == StartsWith(Trim(line), "|") /\ Includes(line, "---")

\* the line is a table line (the tests of lines 141 and 59)
IsTableLine(line) == StartsWith(Trim(line), "|")

\* header names of the line before a separator (lines 135 and 56)
HeaderOf(line) == FilterBoolean(MapTrim(Split(line, "|")))

HIERARCHY_COLUMN_HEADER == <<"Type">>

RECURSIVE SkipStart(_, _, _)

\* Dashboard.md:151
SkipStart(row, start, end) ==
    IF start <= end /\ NoCellAt(row, start)
    THEN SkipStart(row, start + 1, end)
    ELSE start

RECURSIVE SkipEnd(_, _, _)

\* Dashboard.md:152
SkipEnd(row, start, end) ==
    IF end >= start /\ NoCellAt(row, end)
    THEN SkipEnd(row, start, end - 1)
    ELSE end

\* Array.prototype.slice(from, to) for 0 <= from <= to
Slice(arr, from, to) == SubSeq(arr, from + 1, Min(to, Len(arr)))

\* the cells of a data row with every empty cell dropped, as filter(Boolean)
\* of time_data_processor.js:66 drops them
RowCells_filtered(line) == FilterBoolean(MapTrim(Split(line, "|")))

\* Dashboard.md:147-156, the cells of a data row
RowCells(line) ==
    LET row   == MapTrim(Split(line, "|"))
        start == SkipStart(row, 0, Len(row))
        end   == SkipEnd(row, start, Len(row))
    IN  IF start <= end THEN Slice(row, start, end + 1) ELSE row

\* Dashboard.md:161-164 and 166 (time_data_processor.js:68-76):
\* rowData[name] after the forEach; a repeated header keeps its last cell,
\* a name that is no header reads undefined
HasColumn(header, name) == \E k \in 1..Len(header) : header[k] = name

RowDataAt(header, row, name) ==
    LET last == CHOOSE k \in 1..Len(header) :
                    /\ header[k] = name
                    /\ \A j \in (k + 1)..Len(header) : header[j] # name
    IN  row[last]

\* Dashboard.md:169
PathSegmentsOf(hierarchyString) ==
    FilterBoolean(MapTrim(Split(hierarchyString, ">")))

---------------------------------------------------------------------------
(* One iteration of the loop over the lines of a note,                     *)
(* Dashboard.md:128-201.  The result holds the loop variables and the tree *)
(* as the iteration leaves them (i already incremented by the loop), the   *)
(* console calls it made, the branch it took and whether it threw.         *)

Warn(what) == [level |-> "warn", what |-> what]

LineResult(at, tabled, header, tree, took, logged, threw) ==
    [i |-> at, inTable |-> tabled, headerRow |-> header, tree |-> tree,
     took |-> took, logged |-> logged, threw |-> threw]

\* Dashboard.md:147-199, a line of a table
ProcessRow(line, at, header, tree, isStrict) ==
    LET row == RowCells(line)
    IN  IF Len(row) = Len(header)
        THEN IF /\ HasColumn(header, HIERARCHY_COLUMN_HEADER)
                /\ Trim(RowDataAt(header, row, HIERARCHY_COLUMN_HEADER)) # <<>>
             THEN LET pathSegments ==
                          PathSegmentsOf(RowDataAt(header, row,
                                                   HIERARCHY_COLUMN_HEADER))
                      fold == FoldRow(tree, pathSegments, isStrict)
                  IN  IF Len(pathSegments) = 0
                      THEN LineResult(at + 1, TRUE, header, tree, "emptySegments",
                                      <<Warn("EmptyHierarchy")>>, FALSE)   \* 172-173
                      ELSE LineResult(at + 1, TRUE, header, fold.node,
                                      IF fold.threw THEN "foldThrew" ELSE "fold",
                                      <<>>, fold.threw)
             ELSE LineResult(at + 1, TRUE, header, tree, "emptyHierarchy",
                             <<Warn("EmptyHierarchy")>>, FALSE)            \* 195
        ELSE \* line 198 builds its message from rowData, which is declared
             \* in the block of line 160 only: a ReferenceError, before
             \* console.warn is called
             LineResult(at, TRUE, header, tree, "mismatch", <<>>, TRUE)

\* Dashboard.md:129-200; lines[at] is the line at hand, at is the i of the code
ProcessLine(lines, at, tabled, header, tree, isStrict) ==
    LET line == lines[at + 1]
    IN  IF IsSeparatorLine(line)
        THEN IF at = 0
             THEN \* lines[-1] is undefined: line 135 throws a TypeError
                  LineResult(at, TRUE, header, tree, "noHeader", <<>>, TRUE)
             ELSE \* line 136 and the loop both increment i
                  LineResult(at + 2, TRUE, HeaderOf(lines[at]), tree, "separator",
                             <<>>, FALSE)
        ELSE IF tabled /\ ~IsTableLine(line)
             THEN LineResult(at + 1, FALSE, header, tree, "tableEnd", <<>>, FALSE)
             ELSE IF tabled
                  THEN ProcessRow(line, at, header, tree, isStrict)
                  ELSE LineResult(at + 1, tabled, header, tree, "outside",
                                  <<>>, FALSE)

---------------------------------------------------------------------------
(* processTimeLogs, time_data_processor.js:28-124: one iteration of its    *)
(* loop over the lines of a note.  The column names come from the          *)
(* configuration (lines 31-34).                                            *)

activityField == <<"Activity">>

hierarchyField == <<"Type">>

breakdownField == <<"Notes">>

duration == 5    \* time_data_processor.js:79, 0.5 h in tenths of an hour

\* lines.indexOf(line), as a 0-based index
IndexOf(lines, line) ==
    (CHOOSE k \in 1..Len(lines) :
         lines[k] = line /\ \A j \in 1..(k - 1) : lines[j] # line) - 1

\* rowData[field] used as a property key: a missing column reads undefined,
\* which names the property "undefined"
KeyOf(header, row, field) ==
    IF HasColumn(header, field) THEN RowDataAt(header, row, field)
    ELSE <<"undefined">>

\* time_data_processor.js:95-98 and 104-107 on target = currentLevel[category]
AddTime(target, key, isStrict) ==
    CASE target.kind = "undef" -> Walked(target, TRUE)
      [] target.kind = "obj" ->
            LET old  == Get(target, key)
                base == IF Falsy(old) THEN Num(0) ELSE old
            IN  Walked(Put(target, key, PlusNumber(base, duration)), FALSE)
      [] target.kind = "fn" -> Walked(target, FALSE)   \* written to the function
      [] OTHER -> Walked(target, isStrict)

RECURSIVE WalkCategories(_, _, _, _, _, _)

\* time_data_processor.js:85-117; hasBreakdown is the test of line 94
WalkCategories(currentLevel, categories, hasBreakdown, breakdown, activity, isStrict) ==
    LET category == Head(categories)
        last     == Len(categories) = 1
    IN  CASE currentLevel.kind = "undef" ->
                Walked(currentLevel, TRUE)       \* line 87 reads undefined[category]
          [] currentLevel.kind = "obj" ->
                LET old   == Get(currentLevel, category)
                    level == IF Falsy(old)
                             THEN Put(currentLevel, category, EmptyObj)   \* 88
                             ELSE currentLevel
                    child == Get(level, category)
                IN  IF child.kind = "fn" /\ (~last \/ hasBreakdown)
                    THEN \* an inherited function: lines 95-98, or the walk
                         \* from line 114 on, write to it and not to the tree
                         Walked(level, FALSE)
                    ELSE
                    IF last
                    THEN IF hasBreakdown
                         THEN LET r == AddTime(child, breakdown, isStrict)
                              IN  Walked(Put(level, category, r.node), r.threw)
                         ELSE IF child.kind = "obj"                       \* 100
                              THEN LET r == AddTime(child, activity, isStrict)
                                   IN  Walked(Put(level, category, r.node), r.threw)
                              ELSE Walked(Put(level, category,
                                              PlusNumber(child, duration)),
                                          FALSE)                          \* 111
                    ELSE LET r == WalkCategories(child, Tail(categories),
                                                 hasBreakdown, breakdown,
                                                 activity, isStrict)
                         IN  Walked(Put(level, category, r.node), r.threw)
          [] currentLevel.kind = "fn" ->
                Walked(currentLevel, FALSE)      \* written to the function
          [] Get(currentLevel, category).kind = "fn" ->
                \* a number or a string, boxed, and an inherited function:
                \* only line 111 writes a property of the primitive
                Walked(currentLevel, last /\ ~hasBreakdown /\ isStrict)
          [] OTHER ->
                \* currentLevel is a number or a string: line 88 writes a
                \* property of a primitive, and currentLevel[category] stays
                \* undefined
                IF isStrict THEN Walked(currentLevel, TRUE)
                ELSE IF last
                     THEN Walked(currentLevel, hasBreakdown)   \* 95 throws, 111 does not
                     ELSE Walked(currentLevel, TRUE)           \* next turn, line 87

\* time_data_processor.js:66-119, a line of a table
ProcessLogRow(line, at, header, tree, isStrict) ==
    LET row == FilterBoolean(MapTrim(Split(line, "|")))
    IN  IF Len(row) = Len(header) /\ HasColumn(header, hierarchyField)
        THEN LET categories ==
                     MapTrim(Split(RowDataAt(header, row, hierarchyField), ">"))
                 r == WalkCategories(tree, categories,
                                     HasColumn(header, breakdownField),
                                     KeyOf(header, row, breakdownField),
                                     KeyOf(header, row, activityField),
                                     isStrict)
             IN  LineResult(at + 1, TRUE, header, r.node,
                            IF r.threw THEN "foldThrew" ELSE "fold", <<>>, r.threw)
        ELSE LineResult(at + 1, TRUE, header, tree,
                        IF Len(row) = Len(header) THEN "emptyHierarchy"
                        ELSE "mismatch", <<>>, FALSE)

\* time_data_processor.js:51-120; lines[at] is the line at hand, at is the i of the code
ProcessLogLine(lines, at, tabled, header, tree, isStrict) ==
    LET line == lines[at + 1]
    IN  IF IsSeparatorLine(line)
        THEN IF IndexOf(lines, line) = 0
             THEN \* lines[-1] is undefined: line 56 throws a TypeError
                  LineResult(at, TRUE, header, tree, "noHeader", <<>>, TRUE)
             ELSE LineResult(at + 1, TRUE, HeaderOf(lines[IndexOf(lines, line)]),
                             tree, "separator", <<>>, FALSE)
        ELSE IF tabled /\ ~IsTableLine(line)
             THEN LineResult(at + 1, FALSE, header, tree, "tableEnd", <<>>, FALSE)
             ELSE IF tabled
                  THEN ProcessLogRow(line, at, header, tree, isStrict)
                  ELSE LineResult(at + 1, tabled, header, tree, "outside",
                                  <<>>, FALSE)

---------------------------------------------------------------------------
(* The scans: collectAndProcessData (Dashboard.md:110-207) and             *)
(* processTimeLogs (time_data_processor.js:28-124) over the pages their    *)
(* query yielded, line by line.  The await of the load (lines 122 and 45)  *)
(* either yields the content or fails.                                     *)

MaxBodyLines == 2     \* lines a note holds after its opening lines

RECURSIVE CellsLine(_)

\* the text of a table line of the given cells: "| c1 | c2 |"
CellsLine(cells) ==
    IF cells = <<>> THEN <<"|">>
    ELSE <<"|", " ">> \o Head(cells) \o <<" ">> \o CellsLine(Tail(cells))

HeaderTypeMiddle == CellsLine(<< <<"Activity">>, <<"Type">>, <<"Notes">> >>)

HeaderTypeLast == CellsLine(<< <<"Activity">>, <<"Notes">>, <<"Type">> >>)

SeparatorLine == CellsLine(<< <<"---">>, <<"---">>, <<"---">> >>)

RowFull == CellsLine(<< <<"t">>, <<"A">>, <<"A", " ", ">", " ", "B">> >>)

RowBlankMiddle == CellsLine(<< <<"t">>, <<>>, <<"A">> >>)

RowBlankLast == CellsLine(<< <<"t">>, <<"A">>, <<>> >>)

RowNoSegments == CellsLine(<< <<"t">>, <<">">>, <<"A">> >>)

RowOther == CellsLine(<< <<"t">>, <<"B">>, <<"B">> >>)

TextLine == <<"text">>

\* the lines the body of a note is drawn from
BodyLines ==
    {HeaderTypeMiddle, SeparatorLine, RowFull, RowBlankMiddle, RowBlankLast,
     TextLine}

\* the ways a note opens: with nothing, with the head of a table and
\* perhaps its first rows, or with a table and the head of a second one
Openings ==
    {<<>>,
     <<HeaderTypeMiddle, SeparatorLine>>,
     <<HeaderTypeMiddle, SeparatorLine, RowFull>>,
     <<HeaderTypeLast, SeparatorLine, RowFull>>,
     <<HeaderTypeMiddle, SeparatorLine, RowFull, RowNoSegments>>,
     <<HeaderTypeMiddle, SeparatorLine, RowFull, RowFull, TextLine,
       HeaderTypeLast, SeparatorLine>>}

NoteContents ==
    {opening \o body :
        opening \in Openings,
        body \in UNION {[1..n -> BodyLines] : n \in 0..MaxBodyLines}} \ {<<>>}

\* the note before and the note after the note whose content varies
FirstNote == <<HeaderTypeMiddle, SeparatorLine, RowOther, RowOther>>

LastNote == <<HeaderTypeMiddle, SeparatorLine, RowFull, RowFull>>

ScannedPages ==
    {<<Page(NowFirstDay, TRUE, FirstNote),
       Page(NowFirstDay + 1, TRUE, content),
       Page(NowFirstDay + 2, TRUE, LastNote)>> : content \in NoteContents}
    \cup {<<Page(NowFirstDay, TRUE, FirstNote),
            Page(NowFirstDay + 1, FALSE, <<<<>>>>),
            Page(NowFirstDay + 2, TRUE, LastNote)>>}

\* the query (Dashboard.md:114-116, time_data_processor.js:37-39) has run:
\* dailyNotes holds the pages it yielded, by day
InitScan ==
    /\ entry \in {"collectAndProcessData", "processTimeLogs"}
    /\ strict \in BOOLEAN
    /\ dailyNotes \in ScannedPages
    /\ collectedTimeData = EmptyObj
    /\ pageIdx = 1
    /\ i = 0
    /\ inTable = FALSE
    /\ headerRow = <<>>
    /\ console = <<>>
    /\ trace = <<>>
    /\ pc = "load"
    /\ foldedRows = <<>>
    /\ PeriodUnused
    /\ ViewUnused

Logged(level, what, page, line) ==
    [level |-> level, what |-> what, page |-> page, line |-> line]

RECURSIVE LogAll(_, _, _)

\* the console calls of one iteration, with the page and line they are about
LogAll(logged, page, line) ==
    IF logged = <<>> THEN <<>>
    ELSE <<Logged(Head(logged).level, Head(logged).what, page, line)>>
             \o LogAll(Tail(logged), page, line)

\* wrote: whether the iteration changed the tree
Taken(page, line, r, tree) ==
    [page |-> page, line |-> line, took |-> r.took, header |-> r.headerRow,
     wrote |-> r.tree # tree]

\* Dashboard.md:122-126, time_data_processor.js:45-49: the load yields the content
LoadNote ==
    /\ pc = "load"
    /\ pageIdx <= Len(dailyNotes)
    /\ dailyNotes[pageIdx].readable
    /\ i' = 0
    /\ inTable' = FALSE
    /\ headerRow' = <<>>
    /\ pc' = "line"
    /\ UNCHANGED <<foldVars, periodVars, dailyNotes, entry, pageIdx, console, trace>>
    /\ UNCHANGED viewVars

\* Dashboard.md:122 fails inside the try of line 121: the catch of line 202
\* logs and the loop goes on with the next page
LoadFailsCaught ==
    /\ pc = "load"
    /\ entry = "collectAndProcessData"
    /\ pageIdx <= Len(dailyNotes)
    /\ ~dailyNotes[pageIdx].readable
    /\ console' = Append(console, Logged("error", "NoteError", pageIdx, 0))
    /\ pageIdx' = pageIdx + 1
    /\ UNCHANGED <<foldVars, periodVars, dailyNotes, pc, entry, lineVars, trace>>
    /\ UNCHANGED viewVars

\* time_data_processor.js:45 fails: nothing catches, processTimeLogs rejects
LoadFailsUncaught ==
    /\ pc = "load"
    /\ entry = "processTimeLogs"
    /\ pageIdx <= Len(dailyNotes)
    /\ ~dailyNotes[pageIdx].readable
    /\ pc' = "rejected"
    /\ UNCHANGED <<foldVars, periodVars, dailyNotes, scanVars>>
    /\ UNCHANGED viewVars

\* one iteration with no catch around the note, as in processTimeLogs: an
\* exception ends the scan
ScanLine_uncaught ==
    /\ pc = "line"
    /\ entry = "collectAndProcessData"
    /\ i < Len(dailyNotes[pageIdx].lines)
    /\ LET r == ProcessLine(dailyNotes[pageIdx].lines, i, inTable, headerRow,
                            collectedTimeData, strict)
       IN  /\ collectedTimeData' = r.tree
           /\ trace' = Append(trace, Taken(pageIdx, i, r, collectedTimeData))
           /\ i' = r.i
           /\ inTable' = r.inTable
           /\ headerRow' = r.headerRow
           /\ pc' = IF r.threw THEN "rejected" ELSE pc
    /\ UNCHANGED <<strict, foldedRows, periodVars, dailyNotes, entry, pageIdx,
                   console>>
    /\ UNCHANGED viewVars

\* Dashboard.md:128-204, one iteration; an exception ends the note (202-204)
ScanLine ==
    /\ pc = "line"
    /\ entry = "collectAndProcessData"
    /\ i < Len(dailyNotes[pageIdx].lines)
    /\ LET r == ProcessLine(dailyNotes[pageIdx].lines, i, inTable, headerRow,
                            collectedTimeData, strict)
       IN  /\ collectedTimeData' = r.tree
           /\ trace' = Append(trace, Taken(pageIdx, i, r, collectedTimeData))
           /\ i' = r.i
           /\ inTable' = r.inTable
           /\ headerRow' = r.headerRow
           /\ IF r.threw
              THEN /\ console' = Append(console \o LogAll(r.logged, pageIdx, i),
                                        Logged("error", "NoteError", pageIdx, i))
                   /\ pageIdx' = pageIdx + 1
                   /\ pc' = "load"
              ELSE /\ console' = console \o LogAll(r.logged, pageIdx, i)
                   /\ UNCHANGED <<pageIdx, pc>>
    /\ UNCHANGED <<strict, foldedRows, periodVars, dailyNotes, entry>>
    /\ UNCHANGED viewVars

\* time_data_processor.js:51-121, one iteration; an exception rejects
ScanLogLine ==
    /\ pc = "line"
    /\ entry = "processTimeLogs"
    /\ i < Len(dailyNotes[pageIdx].lines)
    /\ LET r == ProcessLogLine(dailyNotes[pageIdx].lines, i, inTable, headerRow,
                               collectedTimeData, strict)
       IN  /\ collectedTimeData' = r.tree
           /\ trace' = Append(trace, Taken(pageIdx, i, r, collectedTimeData))
           /\ i' = r.i
           /\ inTable' = r.inTable
           /\ headerRow' = r.headerRow
           /\ pc' = IF r.threw THEN "rejected" ELSE pc
    /\ UNCHANGED <<strict, foldedRows, periodVars, dailyNotes, entry, pageIdx,
                   console>>
    /\ UNCHANGED viewVars

\* the loop over the lines ends: the next page
EndOfNote ==
    /\ pc = "line"
    /\ i >= Len(dailyNotes[pageIdx].lines)
    /\ pageIdx' = pageIdx + 1
    /\ pc' = "load"
    /\ UNCHANGED <<foldVars, periodVars, dailyNotes, entry, lineVars, console, trace>>
    /\ UNCHANGED viewVars

\* Dashboard.md:206, time_data_processor.js:123
ReturnTree ==
    /\ pc = "load"
    /\ pageIdx > Len(dailyNotes)
    /\ pc' = "done"
    /\ UNCHANGED <<foldVars, periodVars, dailyNotes, scanVars>>
    /\ UNCHANGED viewVars

NextScan ==
    \/ LoadNote
    \/ LoadFailsCaught
    \/ LoadFailsUncaught
    \/ ScanLine
    \/ ScanLogLine
    \/ EndOfNote
    \/ ReturnTree

SpecScan == InitScan /\ [][NextScan]_vars

\* the raw cells of a table line: what stands between its outer pipes
RawCells(line) ==
    LET pieces == MapTrim(Split(line, "|"))
    IN  SubSeq(pieces, 2, Len(pieces) - 1)

\* lines from..to of a note (0-based) all belong to one table
SameTable(lines, from, to) ==
    \A k \in from..to : IsTableLine(lines[k + 1]) /\ ~IsSeparatorLine(lines[k + 1])

\* a row the header accepts: as many cells as the header, and a hierarchy
\* cell that names a path
WellFormedRow(line, header) ==
    /\ Len(RowCells(line)) = Len(header)
    /\ HasColumn(header, HIERARCHY_COLUMN_HEADER)
    /\ PathSegmentsOf(RowDataAt(header, RowCells(line), HIERARCHY_COLUMN_HEADER))
           # <<>>

\* every well-formed row that follows line `line` of page `page` in its
\* table has been folded
LaterRowsFolded(page, line, header) ==
    LET lines == dailyNotes[page].lines
    IN  \A k \in (line + 1)..(Len(lines) - 1) :
            (SameTable(lines, line, k) /\ WellFormedRow(lines[k + 1], header)) =>
                \E m \in 1..Len(trace) :
                    /\ trace[m].page = page
                    /\ trace[m].line = k
                    /\ trace[m].took = "fold"

WasLogged(what, page, line) ==
    \E c \in 1..Len(console) :
        /\ console[c].what = what
        /\ console[c].page = page
        /\ console[c].line = line

(* C5: a data row whose cell count differs from the header's is skipped    *)
(* with a RowShapeMismatch warning, adds nothing to the tree, and the      *)
(* well-formed rows after it in the same table are still folded.           *)
C5_MismatchedRowSkipped ==
    (entry = "collectAndProcessData" /\ pc = "done") =>
        \A n \in 1..Len(trace) :
            trace[n].took = "mismatch" =>
                /\ ~trace[n].wrote
                /\ LaterRowsFolded(trace[n].page, trace[n].line, trace[n].header)
                /\ WasLogged("RowShapeMismatch", trace[n].page, trace[n].line)

\* the data row read at trace[n] has as many raw cells as the header and a
\* blank cell in the hierarchy column
BlankHierarchyRow(n) ==
    LET cells  == RawCells(dailyNotes[trace[n].page].lines[trace[n].line + 1])
        header == trace[n].header
    IN  /\ trace[n].took \in {"mismatch", "emptyHierarchy", "emptySegments",
                              "fold", "foldThrew"}
        /\ Len(cells) = Len(header)
        /\ HasColumn(header, HIERARCHY_COLUMN_HEADER)
        /\ RowDataAt(header, cells, HIERARCHY_COLUMN_HEADER) = <<>>

(* C9: a data row whose hierarchy cell is blank, wherever the hierarchy    *)
(* column stands, adds nothing to the tree and is recorded as an           *)
(* EmptyHierarchy warning, and the rows after it are still aggregated.     *)
C9_BlankHierarchyExcluded ==
    (entry = "collectAndProcessData" /\ pc = "done") =>
        \A n \in 1..Len(trace) :
            BlankHierarchyRow(n) =>
                /\ ~trace[n].wrote
                /\ LaterRowsFolded(trace[n].page, trace[n].line, trace[n].header)
                /\ WasLogged("EmptyHierarchy", trace[n].page, trace[n].line)

(* C10: a note whose content fails to load is skipped with a warning and   *)
(* every other note is still processed; the failure never aborts the scan, *)
(* in collectAndProcessData and in processTimeLogs.                        *)
C10_UnreadableNoteSkipped ==
    /\ ~(pc = "rejected" /\ ~dailyNotes[pageIdx].readable)
    /\ pc = "done" =>
          \A page \in 1..Len(dailyNotes) :
              IF dailyNotes[page].readable
              THEN \E m \in 1..Len(trace) : trace[m].page = page
              ELSE \E c \in 1..Len(console) : console[c].page = page

\* line k (0-based) of a note is a line of the table whose separator is
\* line sep: a table line, as are the lines between the two
RowOfTable(lines, sep, k) ==
    /\ sep >= 1
    /\ sep < k
    /\ IsSeparatorLine(lines[sep + 1])
    /\ SameTable(lines, sep + 1, k)

\* the branches of the loop that handle a line as a data row
RowBranches == {"mismatch", "emptyHierarchy", "emptySegments", "fold", "foldThrew"}

\* line k of the page was handled as a data row, and reached the fold if
\* the header accepts it
HandledAsRow(page, k, header) ==
    \E m \in 1..Len(trace) :
        /\ trace[m].page = page
        /\ trace[m].line = k
        /\ trace[m].took \in RowBranches
        /\ WellFormedRow(dailyNotes[page].lines[k + 1], header)
               => trace[m].took \in {"fold", "foldThrew"}

(* C19: within a table every line after the separator that starts with '|' *)
(* after trimming, up to the first line that does not, is treated as a     *)
(* data row and, when well-formed, folded, the line right after the        *)
(* separator included.                                                     *)
C19_EveryTableLineIsRow ==
    (entry = "collectAndProcessData" /\ pc = "done") =>
        \A page \in 1..Len(dailyNotes) :
            dailyNotes[page].readable =>
                LET lines == dailyNotes[page].lines
                IN  \A sep \in 1..(Len(lines) - 1) :
                        \A k \in (sep + 1)..(Len(lines) - 1) :
                            RowOfTable(lines, sep, k) =>
                                HandledAsRow(page, k, HeaderOf(lines[sep]))

\* the last separator line at or before line k (0-based) of a note
LastSeparator(lines, k) ==
    CHOOSE sep \in 0..k :
        /\ IsSeparatorLine(lines[sep + 1])
        /\ \A j \in (sep + 1)..k : ~IsSeparatorLine(lines[j + 1])

(* C20: on every separator line the header taken for the table is the line *)
(* right before that separator; when a note holds several tables the rows  *)
(* of each are mapped with the header of their own table, also when the    *)
(* separator lines of the tables are the same text.  In                    *)
(* collectAndProcessData and in processTimeLogs.                           *)
C20_HeaderPrecedesSeparator ==
    \A m \in 1..Len(trace) :
        trace[m].took \in RowBranches \cup {"separator"} =>
            LET lines == dailyNotes[trace[m].page].lines
                sep   == LastSeparator(lines, trace[m].line)
            IN  sep >= 1 => trace[m].header = HeaderOf(lines[sep])

(* C21: a line that does not start with '|' after trimming ends the table  *)
(* it stands in, also when it is the line right after the separator: every *)
(* line collectAndProcessData handles as a data row has only table lines   *)
(* between it and the last separator line before it.                       *)
C21_NonTableLineEndsTable ==
    entry = "collectAndProcessData" =>
        \A m \in 1..Len(trace) :
            trace[m].took \in RowBranches =>
                LET lines == dailyNotes[trace[m].page].lines
                IN  \A j \in (LastSeparator(lines, trace[m].line) + 1)..trace[m].line :
                        IsTableLine(lines[j + 1])

\* the cells of a row stand between two cells that are not empty
Bounded(cells) ==
    /\ cells # <<>>
    /\ cells[1] # <<>>
    /\ cells[Len(cells)] # <<>>

\* the header names the cells of the row by position, empty ones included
ZippedByPosition(header, line) ==
    \A k \in 1..Len(header) :
        (\A j \in 1..Len(header) : header[j] = header[k] => j = k) =>
            RowDataAt(header, RowCells(line), header[k]) = RawCells(line)[k]

(* C23: a data row whose first and last cells are not empty keeps its      *)
(* empty cells in between: collectAndProcessData accepts it exactly when   *)
(* it has as many cells as the header, the empty ones counted, and then    *)
(* each header name is mapped to the cell at its own position.             *)
C23_InteriorEmptyCellsKept ==
    entry = "collectAndProcessData" =>
        \A m \in 1..Len(trace) :
            LET line == dailyNotes[trace[m].page].lines[trace[m].line + 1]
            IN  (trace[m].took \in RowBranches /\ Bounded(RawCells(line))) =>
                    /\ trace[m].took # "mismatch"
                           <=> Len(RawCells(line)) = Len(trace[m].header)
                    /\ trace[m].took # "mismatch"
                           => ZippedByPosition(trace[m].header, line)

\* a row with an empty cell between its first and its last cell has been
\* folded
C23_RowWithEmptyCellFolded ==
    /\ entry = "collectAndProcessData"
    /\ \E m \in 1..Len(trace) :
           LET cells == RawCells(dailyNotes[trace[m].page].lines[trace[m].line + 1])
           IN  /\ trace[m].took = "fold"
               /\ Bounded(cells)
               /\ \E k \in 2..(Len(cells) - 1) : cells[k] = <<>>

\* the branches of the loop that end with an exception
ThrowBranches == {"noHeader", "mismatch", "foldThrew"}

\* the loop over the lines of the page has been entered
WasProcessed(page) ==
    \E n \in 1..Len(trace) : trace[n].page = page /\ trace[n].line = 0

(* C26: when an iteration over the lines of a note throws in               *)
(* collectAndProcessData, the tree keeps what earlier notes and earlier    *)
(* rows of the note have folded into it, the iteration itself having       *)
(* changed nothing; no later line of that note is handled, and every later *)
(* note of the window that loads is still processed.                       *)
C26_ThrowEndsOnlyTheNote ==
    entry = "collectAndProcessData" =>
        /\ pc # "rejected"
        /\ \A m \in 1..Len(trace) :
               trace[m].took \in ThrowBranches =>
                   /\ ~trace[m].wrote
                   /\ \A n \in (m + 1)..Len(trace) : trace[n].page > trace[m].page
                   /\ pc = "done" =>
                          \A page \in (trace[m].page + 1)..Len(dailyNotes) :
                              dailyNotes[page].readable => WasProcessed(page)

\* a row of a note was folded, a later row of the note threw while it was
\* folded, and a row of the next note was folded after that
C26_ThrownAfterFoldBeforeFold ==
    /\ entry = "collectAndProcessData"
    /\ pc = "done"
    /\ \E k, m, n \in 1..Len(trace) :
           /\ k < m /\ m < n
           /\ trace[k].page = trace[m].page
           /\ trace[k].took = "fold"
           /\ trace[m].took = "foldThrew"
           /\ trace[n].page > trace[m].page
           /\ trace[n].took = "fold"

---------------------------------------------------------------------------
(* The root view: showMainView, Dashboard.md:481-550, called when the      *)
(* script loads (774), when a period is selected (346-349) and when the    *)
(* home button is clicked (771).  A call runs to its first await without   *)
(* interruption (482-486 and, inside collectAndProcessData, 111-116), is   *)
(* resumed once for every note it loads (122) and once more when           *)
(* collectAndProcessData has returned (487).  Between two resumptions of a *)
(* call other calls may start or resume; each call has its own window,     *)
(* pages and collectedTimeData.                                            *)

MaxCalls == 3      \* calls of showMainView in one run, the first included

\* the notes of the vault of the view, by day
ViewVault ==
    {Page(DaysFromCivil(2023, 6, 1), TRUE,
          <<HeaderTypeMiddle, SeparatorLine, RowFull, RowOther>>),
     Page(DaysFromCivil(2024, 1, 10), FALSE, <<>>),
     Page(DaysFromCivil(2024, 2, 25), TRUE, LastNote),
     Page(DaysFromCivil(2024, 2, 28), TRUE, FirstNote)}

\* dv.date("now") of the run
ViewNowSet == {DateTime(DaysFromCivil(2024, 2, 28), 1),
               DateTime(DaysFromCivil(2024, 3, 1), 2)}

NoteResult(tree, logged, threw, at) ==
    [tree |-> tree, logged |-> logged, threw |-> threw, i |-> at]

\* the console calls of the iteration at line at, added to those before
Said(logged, r, at) ==
    logged \o [k \in 1..Len(r.logged) |->
                  [level |-> r.logged[k].level, what |-> r.logged[k].what,
                   line |-> at]]

RECURSIVE ProcessNote(_, _, _, _, _, _, _)
RECURSIVE AfterLine(_, _, _, _, _)

\* Dashboard.md:128-204, the loop over the lines of a note from line at on;
\* logged collects the console calls with the index of their line
ProcessNote(lines, at, tabled, header, tree, isStrict, logged) ==
    IF at >= Len(lines) THEN NoteResult(tree, logged, FALSE, at)
    ELSE AfterLine(lines, at, isStrict, logged,
                   ProcessLine(lines, at, tabled, header, tree, isStrict))

\* r is what the iteration at line at left: the catch of line 202 ends the
\* note, the loop goes on otherwise
AfterLine(lines, at, isStrict, logged, r) ==
    IF r.threw
    THEN NoteResult(r.tree, Said(logged, r, at), TRUE, at)
    ELSE ProcessNote(lines, r.i, r.inTable, r.headerRow, r.tree, isStrict,
                     Said(logged, r, at))

RECURSIVE ProcessPages(_, _, _, _)

\* Dashboard.md:119-206 with every load resolved in turn: the tree a scan of
\* these pages returns
ProcessPages(pages, from, tree, isStrict) ==
    IF from > Len(pages) THEN tree
    ELSE IF pages[from].readable
         THEN ProcessPages(pages, from + 1,
                           ProcessNote(pages[from].lines, 0, FALSE, <<>>, tree,
                                       isStrict, <<>>).tree,
                           isStrict)
         ELSE ProcessPages(pages, from + 1, tree, isStrict)

\* a + b of line 497 (grandTotal += categoryTotal)
PlusValue(a, b) ==
    IF a.kind = "num" /\ b.kind = "num" THEN Num(a.val + b.val) ELSE OpaqueStr

RECURSIVE SumTotals(_, _, _)

\* Dashboard.md:493-499, grandTotal over the keys of topLevelTotals
SumTotals(totals, keys, sum) ==
    IF keys = {} THEN sum
    ELSE LET key == CHOOSE k \in keys : TRUE
         IN  SumTotals(totals, keys \ {key}, PlusValue(sum, totals.kids[key]))

\* Dashboard.md:491-499, topLevelTotals of a tree
TopLevelTotalsOf(tree) ==
    Obj([category \in DOMAIN tree.kids |-> sumNestedValues(tree.kids[category])])

GrandTotalOf(tree) ==
    SumTotals(TopLevelTotalsOf(tree), DOMAIN tree.kids, Num(0))

\* a function the page keeps to call on a click, with the arguments its
\* closure holds; the onClickHandler of line 758 is null
Handler(fn, args) == [fn |-> fn, args |-> args]

NoHandler == Handler("null", <<>>)

\* Dashboard.md:412-476: the configuration renderChart hands to the chart,
\* data being the values by label
renderChart(data, chartType, onClickHandler, totalForPercentage, currentPath) ==
    [type |-> chartType, data |-> data, onClickHandler |-> onClickHandler,
     totalForPercentage |-> totalForPercentage, currentPath |-> currentPath]

\* chartContainer before the first call of renderChart (line 381)
NoChart == renderChart(EmptyObj, "", NoHandler, Num(0), <<>>)

\* Dashboard.md:501-503, the doughnut of the root view
Doughnut(totals, total) ==
    renderChart(totals, "doughnut", Handler("showSubcategories", <<>>), total,
                <<>>)

\* a row of a table: the value whose toFixed(1) is shown, the total its
\* percentage divides by and the listener of its click
Row(value, total, onclick) ==
    [value |-> value, total |-> total, onclick |-> onclick]

\* the table of detailsSection: head is the heading of its first column,
\* none the text of its no-data row, foot the values of its total row
Table(head, rows, none, foot, threw) ==
    [head |-> head, rows |-> rows, none |-> none, foot |-> foot,
     threw |-> threw]

\* detailsSection before the first table is built (line 393)
NoTable == Table("", <<>>, "", <<>>, FALSE)

\* Dashboard.md:517-537, 603-620, 677-700, 751-766: the body of a table over
\* the values by label.  toFixed is no function of a string or of an object,
\* so the first value that is no number ends the function that renders with
\* a TypeError; the rows drawn before it stay, which ones is a matter of the
\* order of the keys, which the tree does not keep
TableOver(head, values, total, onclicks, none, foot) ==
    IF DOMAIN values.kids = {}
    THEN Table(head, <<>>, none, <<>>, FALSE)
    ELSE LET rows == [label \in DOMAIN values.kids |->
                         Row(values.kids[label], total, onclicks[label])]
         IN  IF \A label \in DOMAIN values.kids : values.kids[label].kind = "num"
             THEN Table(head, rows, "", foot, FALSE)
             ELSE Table(head, rows, "", <<>>, TRUE)

\* Dashboard.md:506-537, the summary table of the root view: every row
\* calls showSubcategories (521), the last row holds the grand total
SummaryTable(totals, total) ==
    TableOver("Category", totals, total,
              [category \in DOMAIN totals.kids |->
                  Handler("showSubcategories", <<category>>)],
              "No data available for this period.", <<total>>)

\* what the page shows: heading, breadcrumb, chart and table
View(heading, crumbs, drawing, table) ==
    [title |-> heading, breadcrumb |-> crumbs, chart |-> drawing,
     details |-> table]

\* an element of the breadcrumb with its onclick
Crumb(text, onclick) == [text |-> text, onclick |-> onclick]

\* the breadcrumb with these elements, displayed or not
Breadcrumb(display, items) == [display |-> display, items |-> items]

\* Dashboard.md:563-564 (645-646, 728-729)
HomeLink == Crumb(<<"Home">>, Handler("showMainView", <<>>))

\* Dashboard.md:565
Separator == Crumb(<<" ", ">", " ">>, NoHandler)

\* Dashboard.md:482
MainTitle == <<"Overall", " ", "Time", " ", "Distribution">>

\* Dashboard.md:572-580 (656-663): the sums of the own properties of an
\* object, nothing for a value typeof does not call an object
SubtotalsOf(node) ==
    IF node.kind = "obj"
    THEN Obj([subItem \in DOMAIN node.kids |->
                 sumNestedValues(node.kids[subItem])])
    ELSE EmptyObj

\* the listeners of the rows of a table over the properties of node: a row
\* gets one if its property is an object (608-611, 684-687)
DrillRows(node, fn, args) ==
    [label \in DOMAIN node.kids |->
        IF node.kids[label].kind = "obj"
        THEN Handler(fn, <<label>> \o args)
        ELSE NoHandler]

\* Dashboard.md:556-622, what showSubcategories leaves on the page
showSubcategories(tree, category) ==
    LET currentCategoryData  == Get(tree, category)
        subcategoriesForView == SubtotalsOf(currentCategoryData)
        currentTotal == SumTotals(subcategoriesForView,
                                  DOMAIN subcategoriesForView.kids, Num(0))
    IN  View(category \o <<" ", "Breakdown">>,
             Breadcrumb("block",
                        <<HomeLink, Separator, Crumb(category, NoHandler)>>),
             renderChart(subcategoriesForView, "doughnut",
                         Handler("showDetails", <<category>>), currentTotal,
                         <<category>>),
             TableOver("Subcategory", subcategoriesForView, currentTotal,
                       IF currentCategoryData.kind = "obj"
                       THEN DrillRows(currentCategoryData, "showDetails",
                                      <<category>>)
                       ELSE <<>>,
                       "No data available for this category.", <<>>))

\* Dashboard.md:630-702, what showDetails leaves on the page
showDetails(tree, subcategory, parentCategory) ==
    LET detailsData  == Get(Get(tree, parentCategory), subcategory)
        values       == SubtotalsOf(detailsData)
        currentTotal == SumTotals(values, DOMAIN values.kids, Num(0))
    IN  IF detailsData.kind # "obj"
        THEN showSubcategories(tree, parentCategory)
        ELSE View(subcategory \o <<" ", "Activities">>,
                  Breadcrumb("block",
                             <<HomeLink, Separator,
                               Crumb(parentCategory,
                                     Handler("showSubcategories",
                                             <<parentCategory>>)),
                               Separator, Crumb(subcategory, NoHandler)>>),
                  renderChart(values, "doughnut",
                              Handler("showDeepDetails",
                                      <<subcategory, parentCategory>>),
                              currentTotal, <<parentCategory, subcategory>>),
                  TableOver("Activity", values, currentTotal,
                            DrillRows(detailsData, "showDeepDetails",
                                      <<subcategory, parentCategory>>),
                            "No data available for this breakdown.", <<>>))

\* showDeepDetails with a chart that calls it again on the label clicked
showDeepDetails_drillable(tree, deepActivity, subcategory, topCategory) ==
    LET deepestData  == Get(Get(Get(tree, topCategory), subcategory),
                            deepActivity)
        currentTotal == SumTotals(deepestData, DOMAIN deepestData.kids, Num(0))
    IN  IF deepestData.kind # "obj"
        THEN showDetails(tree, subcategory, topCategory)
        ELSE View(deepActivity \o <<" ", "Breakdown">>,
                  Breadcrumb("block",
                             <<HomeLink, Separator,
                               Crumb(topCategory,
                                     Handler("showSubcategories",
                                             <<topCategory>>)),
                               Separator,
                               Crumb(subcategory,
                                     Handler("showDetails",
                                             <<subcategory, topCategory>>)),
                               Separator, Crumb(deepActivity, NoHandler)>>),
                  renderChart(deepestData, "doughnut",
                              Handler("showDeepDetails",
                                      <<subcategory, topCategory>>),
                              currentTotal,
                              <<topCategory, subcategory, deepActivity>>),
                  TableOver("Sub-Activity", deepestData, currentTotal,
                            [label \in DOMAIN deepestData.kids |-> NoHandler],
                            "No data available for this breakdown.", <<>>))

\* Dashboard.md:710-768, what showDeepDetails leaves on the page: the values
\* are the properties themselves (736), no row has a listener
showDeepDetails(tree, deepActivity, subcategory, topCategory) ==
    LET deepestData  == Get(Get(Get(tree, topCategory), subcategory),
                            deepActivity)
        currentTotal == SumTotals(deepestData, DOMAIN deepestData.kids, Num(0))
    IN  IF deepestData.kind # "obj"
        THEN showDetails(tree, subcategory, topCategory)
        ELSE View(deepActivity \o <<" ", "Breakdown">>,
                  Breadcrumb("block",
                             <<HomeLink, Separator,
                               Crumb(topCategory,
                                     Handler("showSubcategories",
                                             <<topCategory>>)),
                               Separator,
                               Crumb(subcategory,
                                     Handler("showDetails",
                                             <<subcategory, topCategory>>)),
                               Separator, Crumb(deepActivity, NoHandler)>>),
                  renderChart(deepestData, "doughnut", NoHandler, currentTotal,
                              <<topCategory, subcategory, deepActivity>>),
                  TableOver("Sub-Activity", deepestData, currentTotal,
                            [label \in DOMAIN deepestData.kids |-> NoHandler],
                            "No data available for this breakdown.", <<>>))

\* Dashboard.md:487 with 111-116: the locals of a call of showMainView at
\* its first await, window being what calculateDateRange returned and pages
\* what dv.pages() yields; cause is the history of what made the call
CallOver(period, window, pages, cause) ==
    [period |-> period,
     startDate |-> window.startDate,
     endDate |-> window.endDate,
     dailyNotes |-> SelectDailyNotes(pages, window.startDate, window.endDate),
     pageIdx |-> 1,
     collectedTimeData |-> EmptyObj,
     pc |-> "load",
     cause |-> cause]

\* Dashboard.md:486-487
Call(period, today, pages, cause) ==
    CallOver(period, calculateDateRange(period, today), pages, cause)

\* whether the loop over the pages of a call has ended (line 119)
Finished(call) == call.pageIdx > Len(call.dailyNotes)

\* the locals of a call that has returned
Done(call) == [call EXCEPT !.pc = "done"]

\* Once the last load of a call has resolved nothing in it waits for
\* anything but promises already resolved: collectAndProcessData returns
\* (206) and showMainView goes on to its end (487-549) before any other
\* event or load is handled.  A call whose window holds no note gets there
\* without any load.

\* history: by is what drew on the page last, a call of showMainView made
\* ("load", "period", "home"), its rendering when it had the tree ("scan"),
\* a click on a label ("select") or on a link of the breadcrumb ("crumb");
\* path is the drill path that was asked for, the root being <<>>
Drawn(by, path) == [by |-> by, path |-> path]

\* the state the first call of showMainView (line 774) leaves when the
\* script has been evaluated
FirstCall(call) ==
    IF Finished(call)
    THEN /\ calls = <<Done(call)>>
         /\ timeData = call.collectedTimeData
         /\ topLevelTotals = TopLevelTotalsOf(timeData)
         /\ grandTotal = GrandTotalOf(timeData)
         /\ chart = Doughnut(topLevelTotals, grandTotal)
         /\ details = SummaryTable(topLevelTotals, grandTotal)
         /\ drawn = Drawn("scan", <<>>)
    ELSE /\ calls = <<call>>
         /\ timeData = EmptyObj                        \* line 22
         /\ topLevelTotals = EmptyObj                  \* line 23
         /\ grandTotal = Num(0)                        \* line 24
         /\ chart = NoChart
         /\ details = NoTable
         /\ drawn = Drawn("load", <<>>)

InitView ==
    /\ strict \in BOOLEAN
    /\ currentPeriod = "Today"                         \* line 25
    /\ now \in ViewNowSet
    /\ range = DateRange(now, now)
    /\ vault = ViewVault
    /\ title = MainTitle                               \* line 774 with 482
    /\ breadcrumb = Breadcrumb("none", <<>>)           \* line 483
    /\ FirstCall(Call("Today", now, vault, "load"))
    /\ collectedTimeData = EmptyObj
    /\ foldedRows = <<>>
    /\ dailyNotes = <<>>
    /\ pc = "view"
    /\ ScanUnused

\* Dashboard.md:487-549: the tree returned becomes the tree in use and the
\* root view is rendered from it
Rendered(tree) ==
    /\ timeData' = tree
    /\ topLevelTotals' = TopLevelTotalsOf(timeData')
    /\ grandTotal' = GrandTotalOf(timeData')
    /\ chart' = Doughnut(topLevelTotals', grandTotal')
    /\ details' = SummaryTable(topLevelTotals', grandTotal')
    /\ drawn' = Drawn("scan", <<>>)

\* calls with the locals of call number c set; c is a call made or the next
Placed(c, call) ==
    [k \in 1..(IF c > Len(calls) THEN c ELSE Len(calls)) |->
        IF k = c THEN call ELSE calls[k]]

\* call holds the locals of call number c as a step has left them: the call
\* waits for its next load, or returns and renders
Proceeds(c, call) ==
    IF Finished(call)
    THEN /\ calls' = Placed(c, Done(call))
         /\ Rendered(call.collectedTimeData)
    ELSE /\ calls' = Placed(c, call)
         /\ drawn' = IF c > Len(calls) THEN Drawn(call.cause, <<>>) ELSE drawn
         /\ UNCHANGED <<timeData, topLevelTotals, grandTotal, chart, details>>

\* Dashboard.md:482-487 up to the first await, for the period selected; the
\* elements of the breadcrumb stay as they are, out of sight
ShowMainViewCalled(cause) ==
    /\ Len(calls) < MaxCalls
    /\ title' = MainTitle
    /\ breadcrumb' = Breadcrumb("none", breadcrumb.items)
    /\ Proceeds(Len(calls) + 1, Call(currentPeriod', now, vault, cause))
    /\ UNCHANGED <<foldVars, now, range, dailyNotes, pc, scanVars, vault>>

\* Dashboard.md:346-349, the change event of the period selector
PeriodSelected(p) ==
    /\ pc = "view"
    /\ currentPeriod' = p
    /\ ShowMainViewCalled("period")

\* Dashboard.md:771, a click of the home button
HomeClicked ==
    /\ pc = "view"
    /\ currentPeriod' = currentPeriod
    /\ ShowMainViewCalled("home")

\* Dashboard.md:202-204 after 128-201: what a note leaves on the console
NoteConsole(r, page) ==
    LET said == [k \in 1..Len(r.logged) |->
                   Logged(r.logged[k].level, r.logged[k].what, page,
                          r.logged[k].line)]
    IN  IF r.threw
        THEN Append(said, Logged("error", "NoteError", page, r.i))
        ELSE said

\* r is what the loop over the lines of the page of call c left
NoteProcessed(c, r) ==
    /\ console' = console \o NoteConsole(r, calls[c].pageIdx)
    /\ Proceeds(c, [calls[c] EXCEPT !.collectedTimeData = r.tree,
                                    !.pageIdx = @ + 1])

\* Dashboard.md:122-204 for call c: the load of its next page yields the
\* content and the lines of the note are processed
NoteLoaded(c) ==
    /\ pc = "view"
    /\ calls[c].pc = "load"
    /\ calls[c].dailyNotes[calls[c].pageIdx].readable
    /\ NoteProcessed(c, ProcessNote(calls[c].dailyNotes[calls[c].pageIdx].lines,
                                    0, FALSE, <<>>, calls[c].collectedTimeData,
                                    strict, <<>>))
    /\ UNCHANGED <<foldVars, periodVars, dailyNotes, pc, entry, pageIdx,
                   lineVars, trace, title, breadcrumb, vault>>

\* Dashboard.md:122 fails for call c, inside the try of line 121: the catch
\* of line 202 logs and the loop goes on
NoteLoadFails(c) ==
    /\ pc = "view"
    /\ calls[c].pc = "load"
    /\ ~calls[c].dailyNotes[calls[c].pageIdx].readable
    /\ console' = Append(console,
                         Logged("error", "NoteError", calls[c].pageIdx, 0))
    /\ Proceeds(c, [calls[c] EXCEPT !.pageIdx = @ + 1])
    /\ UNCHANGED <<foldVars, periodVars, dailyNotes, pc, entry, pageIdx,
                   lineVars, trace, title, breadcrumb, vault>>

NextView ==
    \/ \E p \in periods : PeriodSelected(p)
    \/ HomeClicked
    \/ \E c \in 1..Len(calls) : NoteLoaded(c)
    \/ \E c \in 1..Len(calls) : NoteLoadFails(c)

SpecView == InitView /\ [][NextView]_vars

\* the tree a scan for a period returns
BuiltFor(period) ==
    ProcessPages(Call(period, now, vault, "").dailyNotes, 1, EmptyObj, strict)

AllScansCompleted == \A c \in 1..Len(calls) : calls[c].pc = "done"

(* C6: if the period is selected again while the scan for an earlier       *)
(* selection is still in progress, the results of the stale scan are       *)
(* discarded: once every scan has completed, the tree in use and the root  *)
(* view rendered are those built for the period selected last, whatever    *)
(* the order in which the scans finish.                                    *)
C6_StaleScanDiscarded ==
    (pc = "view" /\ AllScansCompleted) =>
        LET built == BuiltFor(currentPeriod)
        IN  /\ timeData = built
            /\ chart = Doughnut(TopLevelTotalsOf(built), GrandTotalOf(built))
            /\ details = SummaryTable(TopLevelTotalsOf(built), GrandTotalOf(built))

\* the notes of the vault whose day lies in the window, by day
NotesWithin(startDate, endDate) ==
    SortByDay({p \in vault : /\ p.hasDay
                             /\ Instant(p.day) >= Instant(startDate)
                             /\ Instant(p.day) <= Instant(endDate)})

\* the tree one scan builds from an empty tree out of the notes of a window
TreeOfWindow(startDate, endDate) ==
    ProcessPages(NotesWithin(startDate, endDate), 1, EmptyObj, strict)

\* the tree in use is the tree of the window of call c, which has returned
BuiltBy(c) ==
    /\ calls[c].pc = "done"
    /\ timeData = TreeOfWindow(calls[c].startDate, calls[c].endDate)

---------------------------------------------------------------------------
(* Drilling down: the clicks on the chart (440-446), on the rows of the    *)
(* table (521, 610, 686) and on the links of the breadcrumb (564, 649,     *)
(* 734, 737), which call showSubcategories, showDetails, showDeepDetails   *)
(* and showMainView on the tree in use.                                    *)

\* the page after a function that renders has run
Shown(view) ==
    /\ title' = view.title
    /\ breadcrumb' = view.breadcrumb
    /\ chart' = view.chart
    /\ details' = view.details

\* what the function of a handler leaves on the page, called on args
Applied(fn, args) ==
    CASE fn = "showSubcategories" -> showSubcategories(timeData, args[1])
      [] fn = "showDetails"       -> showDetails(timeData, args[1], args[2])
      [] fn = "showDeepDetails"   ->
             showDeepDetails(timeData, args[1], args[2], args[3])

\* the drill path the arguments of a call name: showDetails(subcategory,
\* parentCategory) asks for <<parentCategory, subcategory>>
PathAsked(args) == [k \in 1..Len(args) |-> args[Len(args) + 1 - k]]

\* a handler is called on args: showMainView starts a scan (481-487), the
\* other three render at once
Called(fn, args, by) ==
    IF fn = "showMainView"
    THEN /\ currentPeriod' = currentPeriod
         /\ ShowMainViewCalled("home")
    ELSE /\ Shown(Applied(fn, args))
         /\ drawn' = Drawn(by, PathAsked(args))
         /\ UNCHANGED <<foldVars, periodVars, dailyNotes, pc, scanVars,
                        timeData, topLevelTotals, grandTotal, calls, vault>>

\* Dashboard.md:440-446, a click on the arc of a label of the chart: there
\* is an arc to hit where the value is a positive number
ChartClicked(clickedLabel) ==
    /\ pc = "view"
    /\ chart.onClickHandler # NoHandler
    /\ clickedLabel \in DOMAIN chart.data.kids
    /\ chart.data.kids[clickedLabel].kind = "num"
    /\ chart.data.kids[clickedLabel].val > 0
    /\ Called(chart.onClickHandler.fn,
              <<clickedLabel>> \o chart.onClickHandler.args, "select")

\* Dashboard.md:521, 610, 686, a click on a row of the table that listens
RowClicked(label) ==
    /\ pc = "view"
    /\ label \in DOMAIN details.rows
    /\ details.rows[label].onclick # NoHandler
    /\ Called(details.rows[label].onclick.fn, details.rows[label].onclick.args,
              "select")

\* Dashboard.md:564, 649, 734, 737, a click on a link of the breadcrumb
BreadcrumbClicked(k) ==
    /\ pc = "view"
    /\ breadcrumb.display = "block"
    /\ k \in DOMAIN breadcrumb.items
    /\ breadcrumb.items[k].onclick # NoHandler
    /\ Called(breadcrumb.items[k].onclick.fn, breadcrumb.items[k].onclick.args,
              "crumb")

RECURSIVE HierarchyOf(_)

\* the text of the hierarchy cell of a path: "A > B > C"
HierarchyOf(path) ==
    IF Len(path) = 1 THEN Head(path)
    ELSE Head(path) \o <<" ", ">", " ">> \o HierarchyOf(Tail(path))

\* a note with one table, a row for each path after a first row
NoteOf(paths) ==
    <<HeaderTypeMiddle, SeparatorLine, RowOther>>
    \o [k \in 1..Len(paths) |->
           CellsLine(<< <<"t">>, HierarchyOf(paths[k]), <<"n">> >>)]

\* dv.date("now") of the runs with clicks
NavNow == DateTime(DaysFromCivil(2024, 2, 28), 1)

\* a vault with a note of three days before and a note of the day
NavVault(before, today) ==
    {Page(NavNow.day - 3, TRUE, NoteOf(before)),
     Page(NavNow.day, TRUE, NoteOf(today))}

\* the vaults of the runs with clicks: a path of five segments, a leaf next
\* to a branch, and a segment named like a member every object inherits
NavVaults ==
    {NavVault(<< <<<<"A">>, <<"B">>, <<"A">>, <<"B">>, <<"A">>>> >>,
              << <<<<"C">>>> >>),
     NavVault(<< <<<<"A">>, <<"B">>>>, <<<<"A">>, <<"A">>, <<"B">>>> >>,
              << <<<<"C">>>> >>),
     NavVault(<< <<<<"C">>>> >>,
              << <<<<"A">>, <<"constructor">>, <<"B">>>> >>)}

\* the periods selected in the runs with clicks
NavPeriods == {"Today", "7 days"}

InitNav ==
    /\ strict \in BOOLEAN
    /\ currentPeriod = "Today"                         \* line 25
    /\ now = NavNow
    /\ range = DateRange(now, now)
    /\ vault \in NavVaults
    /\ title = MainTitle                               \* line 774 with 482
    /\ breadcrumb = Breadcrumb("none", <<>>)           \* line 483
    /\ FirstCall(Call("Today", now, vault, "load"))
    /\ collectedTimeData = EmptyObj
    /\ foldedRows = <<>>
    /\ dailyNotes = <<>>
    /\ pc = "view"
    /\ ScanUnused

NextNav ==
    \/ \E p \in NavPeriods : PeriodSelected(p)
    \/ HomeClicked
    \/ \E c \in 1..Len(calls) : NoteLoaded(c)
    \/ \E label \in DOMAIN chart.data.kids : ChartClicked(label)
    \/ \E label \in DOMAIN details.rows : RowClicked(label)
    \/ \E k \in DOMAIN breadcrumb.items : BreadcrumbClicked(k)

SpecNav == InitNav /\ [][NextNav]_vars

\* the child of a node of the tree by name: an own key of a branch
ChildOf(node, name) ==
    IF node.kind = "obj" /\ name \in DOMAIN node.kids THEN node.kids[name]
    ELSE Undef

RECURSIVE Resolved(_, _)

\* the node of the tree a drill path leads to, undefined if none
Resolved(tree, path) ==
    IF path = <<>> THEN tree
    ELSE Resolved(ChildOf(tree, Head(path)), Tail(path))

\* a segment of the path is missing, or is a leaf with segments after it
Mismatch(tree, path) ==
    \E k \in 1..Len(path) :
        \/ Resolved(tree, SubSeq(path, 1, k)).kind = "undef"
        \/ k < Len(path) /\ Resolved(tree, SubSeq(path, 1, k)).kind # "obj"

\* the root view of a tree (482-537)
MainView(tree) ==
    View(MainTitle, Breadcrumb("none", <<>>),
         Doughnut(TopLevelTotalsOf(tree), GrandTotalOf(tree)),
         SummaryTable(TopLevelTotalsOf(tree), GrandTotalOf(tree)))

\* the view of a drill path of at most three segments
ViewAt(tree, path) ==
    CASE Len(path) = 0 -> MainView(tree)
      [] Len(path) = 1 -> showSubcategories(tree, path[1])
      [] Len(path) = 2 -> showDetails(tree, path[2], path[1])
      [] Len(path) = 3 -> showDeepDetails(tree, path[3], path[2], path[1])

\* the page shows this view; the elements of a breadcrumb out of sight are
\* not shown
PageShows(view) ==
    /\ title = view.title
    /\ chart = view.chart
    /\ details = view.details
    /\ breadcrumb.display = view.breadcrumb.display
    /\ breadcrumb.display = "block" => breadcrumb.items = view.breadcrumb.items

(* C11: when a click has asked for a drill path in which some segment is   *)
(* missing from the tree in use, or is a leaf while segments remain, the   *)
(* function called does not raise and the page shows the view of the path  *)
(* one level shallower.                                                    *)
C11_MismatchFallsBackOneLevel ==
    (drawn.by \in {"select", "crumb"} /\ Mismatch(timeData, drawn.path)) =>
        /\ ~details.threw
        /\ PageShows(ViewAt(timeData, AllButLast(drawn.path)))

\* the values shown for the children of a node, chart and table alike, are
\* the sums of their subtrees
ShowsSums(node) ==
    \A child \in DOMAIN node.kids :
        /\ child \in DOMAIN chart.data.kids
        /\ chart.data.kids[child] = sumNestedValues(node.kids[child])
        /\ child \in DOMAIN details.rows
        /\ details.rows[child].value = sumNestedValues(node.kids[child])

\* the total of the view is the sum of the values shown and the sum of the
\* node; it is the total the percentages of the rows divide by
ShowsTotal(node) ==
    /\ chart.totalForPercentage =
           SumTotals(chart.data, DOMAIN chart.data.kids, Num(0))
    /\ chart.totalForPercentage = sumNestedValues(node)
    /\ \A child \in DOMAIN details.rows :
           details.rows[child].total = chart.totalForPercentage

(* C12: in every view drawn for a branch of the tree in use, at the root   *)
(* or at any drill path, the value shown for each child is the sum over    *)
(* the child's subtree, and the total of the view is both the sum of the   *)
(* values shown and the sum of the branch viewed; the table is drawn       *)
(* without a TypeError.                                                    *)
C12_ViewShowsSubtreeSums ==
    (chart # NoChart /\ Resolved(timeData, chart.currentPath).kind = "obj") =>
        /\ ~details.threw
        /\ ShowsSums(Resolved(timeData, chart.currentPath))
        /\ ShowsTotal(Resolved(timeData, chart.currentPath))

\* the view on the page has no child and nothing to click for a deeper one
Terminal ==
    /\ DOMAIN chart.data.kids = {}
    /\ DOMAIN details.rows = {}

(* C13: when the page was drawn last by a click on a label L of the chart  *)
(* or of a row of the table in the view at path p, and p + [L] is a node   *)
(* of the tree in use, the view on the page is the view at p + [L],        *)
(* whether L is a leaf or a branch; for a leaf it has no children and      *)
(* nothing to drill into.                                                  *)
C13_SelectionMovesToChild ==
    (drawn.by = "select" /\ Resolved(timeData, drawn.path).kind # "undef") =>
        /\ chart.currentPath = drawn.path
        /\ Resolved(timeData, drawn.path).kind # "obj" => Terminal

\* a call of showMainView with this cause returns in this step: it has
\* loaded its last note, or it had none to load
Returns(c, cause) ==
    /\ calls'[c].cause = cause
    /\ calls'[c].pc = "done"
    /\ c > Len(calls) \/ calls[c].pc = "load"

(* C14: when the call of showMainView a click on Home has made returns,    *)
(* whatever was on the page when Home was clicked and whatever was clicked *)
(* since, the page shows the root view of the tree in use: its title, no   *)
(* breadcrumb, and the chart and the table of the root at path [].         *)
C14_HomeShowsRoot ==
    [][(\E c \in 1..Len(calls') : Returns(c, "home")) =>
          /\ title' = MainTitle
          /\ breadcrumb'.display = "none"
          /\ chart' = MainView(timeData').chart
          /\ details' = MainView(timeData').details]_vars

(* C15: the tree in use is replaced only by a scan made for the load of    *)
(* the script or for a change of the period: no step of a click on a       *)
(* label, on a link of the breadcrumb or on Home, and no return of a call  *)
(* that Home has made, leaves another tree in use.                         *)
C15_NavigationKeepsTree ==
    [][timeData' # timeData =>
          \E c \in 1..Len(calls') :
              Returns(c, "load") \/ Returns(c, "period")]_vars

(* C17: no percentage on the page divides by a total of zero: the total of *)
(* every row of the table drawn is not 0, and neither is the total of the  *)
(* chart where it has an arc whose tooltip computes a percentage.          *)
C17_NoPercentageOfZeroTotal ==
    /\ \A label \in DOMAIN details.rows : details.rows[label].total # Num(0)
    /\ \A label \in DOMAIN chart.data.kids :
           (chart.data.kids[label].kind = "num" /\ chart.data.kids[label].val > 0)
               => chart.totalForPercentage # Num(0)

---------------------------------------------------------------------------
(* Properties of the fold over the nodes of the tree.                      *)

RECURSIVE LeavesAndBranches(_)

\* a node is a leaf holding a number that is not negative, or a branch of
\* such nodes
LeavesAndBranches(node) ==
    \/ node.kind = "num" /\ node.val >= 0
    \/ /\ node.kind = "obj"
       /\ \A name \in DOMAIN node.kids : LeavesAndBranches(node.kids[name])

(* C22: in every state of a build every node of the tree is a leaf holding *)
(* a number that is not negative or a branch mapping names to such nodes:  *)
(* no fold leaves a negative duration or a value that is neither.          *)
C22_TreeOfLeavesAndBranches == LeavesAndBranches(collectedTimeData)

\* the names a path of the model is made of
PathNames == SegmentNames \cup InheritedNames

\* the paths of at most MaxDepth names, the root included
TreePaths == UNION {[1..n -> PathNames] : n \in 0..MaxDepth}

\* the row may be folded as it is: no node before the end of the path is a
\* leaf, and the node at its end is no branch
PathIsFree(tree, path) ==
    /\ \A n \in 1..(Len(path) - 1) :
           Resolved(tree, SubSeq(path, 1, n)).kind \in {"undef", "obj"}
    /\ Resolved(tree, path).kind \in {"undef", "num"}

\* the number a leaf holds, 0 for a leaf that is not there
HeldAt(tree, path) ==
    IF Resolved(tree, path).kind = "num" THEN Resolved(tree, path).val ELSE 0

\* what the fold of a row at path has done to the node at q: the leaf at
\* path holds 0.5 h more, the nodes above it are branches, and every other
\* node is what it was, a leaf with its value
FoldedAt(before, after, path, q) ==
    IF q = path
    THEN Resolved(after, q) = Num(HeldAt(before, q) + DURATION_PER_ROW_HOURS)
    ELSE IF IsPrefix(q, path)
         THEN Resolved(after, q).kind = "obj"
         ELSE /\ Resolved(after, q).kind = Resolved(before, q).kind
              /\ Resolved(before, q).kind = "num"
                     => Resolved(after, q) = Resolved(before, q)

(* C28: folding an accepted row into a tree of leaves and branches, where  *)
(* its path neither passes through a leaf nor ends at a branch, adds 0.5 h *)
(* to the one leaf at that path (created at 0 if absent), makes the nodes  *)
(* above it branches, creating only the missing ones, and leaves every     *)
(* other leaf with the value it had.                                       *)
C28_FoldAddsToOneLeaf ==
    [][\A path \in RowPaths :
          (/\ foldedRows' = Append(foldedRows, path)
           /\ LeavesAndBranches(collectedTimeData)
           /\ PathIsFree(collectedTimeData, path)) =>
              \A q \in TreePaths :
                  FoldedAt(collectedTimeData, collectedTimeData', path, q)
      ]_vars

(* C25: once every call of showMainView has returned, whatever clicks on   *)
(* the chart, the table or the breadcrumb were handled while a reload was  *)
(* loading notes, the title and the breadcrumb on the page are those of    *)
(* the view whose chart and table are shown: the root view for the path    *)
(* [], the view of the drill path of the chart otherwise.                  *)
C25_HeadingMatchesChart ==
    (pc = "view" /\ AllScansCompleted) =>
        /\ title = ViewAt(timeData, chart.currentPath).title
        /\ breadcrumb.display
               = ViewAt(timeData, chart.currentPath).breadcrumb.display
        /\ breadcrumb.display = "block" =>
               breadcrumb.items
                   = ViewAt(timeData, chart.currentPath).breadcrumb.items


---------------------------------------------------------------------------
(* The depth of the drill path.                                            *)

\* the labels the breadcrumb names after Home
CrumbLabels == {k \in DOMAIN breadcrumb.items :
                   breadcrumb.items[k] \notin {HomeLink, Separator}}

\* the arguments a click on the chart or on a row of the table would call
\* its handler on
ArgsOffered ==
    (IF chart.onClickHandler = NoHandler THEN {}
     ELSE {<<<<"label">>>> \o chart.onClickHandler.args})
        \cup {details.rows[label].onclick.args :
                 label \in {l \in DOMAIN details.rows :
                               details.rows[l].onclick # NoHandler}}

(* C27: whatever was selected, whichever links of the breadcrumb and       *)
(* however often Home were clicked, and whichever calls fell back, the     *)
(* path the page is at has at most 3 labels, in the chart as in the        *)
(* breadcrumb; every click the page offers asks for at most 3 labels, and  *)
(* the chart and the table at a path of 3 labels offer none.               *)
C27_DrillPathAtMostThree ==
    pc = "view" =>
        /\ Len(chart.currentPath) \in 0..3
        /\ Len(drawn.path) \in 0..3
        /\ Cardinality(CrumbLabels) \in 0..3
        /\ \A args \in ArgsOffered : Len(args) <= 3
        /\ Len(chart.currentPath) = 3 =>
               /\ chart.onClickHandler = NoHandler
               /\ \A label \in DOMAIN details.rows :
                      details.rows[label].onclick = NoHandler

\* the page is at a path of 3 labels whose node has a branch below it,
\* reached by selections
C27_AtDepthThreeAboveBranch ==
    /\ pc = "view"
    /\ Len(chart.currentPath) = 3
    /\ drawn.by = "select"
    /\ drawn.path = chart.currentPath
    /\ Cardinality(CrumbLabels) = 3
    /\ \E label \in DOMAIN chart.data.kids : chart.data.kids[label].kind = "obj"

=============================================================================
